---- MODULE Spec2Model ----
(***************************************************************************)
(* Process Tree Visualizer (process-tree-python.py).                       *)
(*                                                                         *)
(* The model follows main(): one ProcessTree per cycle, collect_processes, *)
(* build_tree, the display mode (search / subtree by pid / full forest),   *)
(* the statistics, export_to_file, and the monitoring loop with its        *)
(* KeyboardInterrupt handler.  display_tree's recursion is an explicit     *)
(* stack of frames, one step per call or return.                           *)
(*                                                                         *)
(* Text is a sequence of one-character strings.  A printed line is a       *)
(* record; colour codes and the --resources / --verbose decorations of a   *)
(* line (CPU, MEM, user, uptime, command line) are not modelled, nor are   *)
(* the ProcessInfo fields only they read.  memory_mb is a whole number.    *)
(***************************************************************************)
EXTENDS Integers, Sequences, FiniteSets

VARIABLES
    table,              \* the operating system's process table (psutil)
    args,               \* the parsed command line
    pc,                 \* position in main()
    processes,          \* ProcessTree.processes, in dict insertion order
    root_processes,     \* ProcessTree.root_processes (pids)
    total_processes,    \* ProcessTree.total_processes
    collection_errors,  \* ProcessTree.collection_errors
    matches,            \* result of find_process still to be displayed
    stack,              \* display_tree call stack
    visited,            \* display_tree's visited set
    stdout,             \* what sys.stdout is bound to
    terminal,           \* lines on the terminal since the last screen clear
    file,               \* lines written to the export file
    exit_status,        \* process exit status, NoStatus while running
    prev_failed         \* history: the previous cycle's enumeration failed

vars == <<table, args, pc, processes, root_processes, total_processes,
          collection_errors, matches, stack, visited, stdout, terminal,
          file, exit_status, prev_failed>>

tree_vars == <<processes, root_processes, total_processes, collection_errors>>

-----------------------------------------------------------------------------
(* Bounds *)

MaxPid == 2
MaxLen == 2

Pids == 0..MaxPid
NoPid == -1
NoStatus == -1

-----------------------------------------------------------------------------
(* Text *)

Digits == <<"0", "1", "2", "3", "4", "5", "6", "7", "8", "9">>

IsDigit(c) == \E d \in 1..10 : Digits[d] = c

DigitValue(c) == (CHOOSE d \in 1..10 : Digits[d] = c) - 1

LowerChar(c) ==
    CASE c = "A" -> "a"
      [] c = "B" -> "b"
      [] c = "P" -> "p"
      [] OTHER -> c

LowerIdentity(s) == s

\* str.lower()
Lower(s) == [i \in 1..Len(s) |-> LowerChar(s[i])]

\* the operator `in` on two strings
Contains(hay, needle) ==
    \E k \in 0..Len(hay) :
        /\ k + Len(needle) <= Len(hay)
        /\ \A i \in 1..Len(needle) : hay[k + i] = needle[i]

\* int(query) succeeds
IsInt(q) == Len(q) > 0 /\ \A i \in 1..Len(q) : IsDigit(q[i])

RECURSIVE IntValue(_)
IntValue(q) ==
    IF q = <<>> THEN 0
    ELSE 10 * IntValue(SubSeq(q, 1, Len(q) - 1)) + DigitValue(q[Len(q)])

UnknownName == <<"<", "u", "n", "k", "n", "o", "w", "n", ">">>

-----------------------------------------------------------------------------
(* Sequences *)

Range(s) == {s[i] : i \in 1..Len(s)}

RECURSIVE Insert(_, _)
Insert(sorted, x) ==
    IF sorted = <<>> THEN <<x>>
    ELSE IF x < Head(sorted) THEN <<x>> \o sorted
    ELSE <<Head(sorted)>> \o Insert(Tail(sorted), x)

RECURSIVE SortByPidRec(_)
SortByPidRec(s) ==
    IF s = <<>> THEN <<>>
    ELSE Insert(SortByPidRec(SubSeq(s, 1, Len(s) - 1)), s[Len(s)])

Unsorted(s) == s

\* list.sort(key=lambda p: p.pid), on a list of pids
SortByPid(s) == SortByPidRec(s)

Reverse(s) == [i \in 1..Len(s) |-> s[Len(s) + 1 - i]]

RECURSIVE SumSeq(_)
SumSeq(s) == IF s = <<>> THEN 0 ELSE Head(s) + SumSeq(Tail(s))

-----------------------------------------------------------------------------
(* The process source: what psutil answers for each pid *)

FieldNames == {"name", "ppid", "status", "memory_mb", "num_threads"}

AbsentEntry ==
    [open |-> "absent", ppid |-> 0, name |-> <<>>, status |-> "unknown",
     memory_mb |-> 0, num_threads |-> 0, denied |-> {}]

Entry(open, ppid, name, status, mem, threads, denied) ==
    [open |-> open, ppid |-> ppid, name |-> name, status |-> status,
     memory_mb |-> mem, num_threads |-> threads, denied |-> denied]

RECURSIVE Ascending(_)
Ascending(S) ==
    IF S = {} THEN <<>>
    ELSE LET m == CHOOSE x \in S : \A y \in S : x <= y
         IN <<m>> \o Ascending(S \ {m})

\* the answers psutil.pids() can give: the pids of the table, lowest first
\* or highest first
Enumerations(t) ==
    LET asc == Ascending({p \in Pids : t[p].open # "absent"})
    IN {asc, Reverse(asc)}

-----------------------------------------------------------------------------
(* ProcessInfo and the pid index *)

ProcessInfo(pid, ppid, name, status, mem, threads) ==
    [pid |-> pid, ppid |-> ppid, name |-> name, status |-> status,
     memory_mb |-> mem, num_threads |-> threads, children |-> <<>>]

Keys(procs) == {procs[i].pid : i \in 1..Len(procs)}

IndexOf(procs, pid) == CHOOSE i \in 1..Len(procs) : procs[i].pid = pid

Proc(procs, pid) == procs[IndexOf(procs, pid)]

\* self.processes[pid] = process_info
Store(procs, info) ==
    IF info.pid \in Keys(procs)
    THEN [procs EXCEPT ![IndexOf(procs, info.pid)] = info]
    ELSE Append(procs, info)

\* one `try: x = proc.x() except (AccessDenied, NoSuchProcess): x = default`
ReadField(e, f, value, default) == IF f \in e.denied THEN default ELSE value

\* the body of the loop of collect_processes for one pid;
\* st = [processes, collection_errors]
CollectCountingFields(st, pid, e) ==
    IF e.open # "ok" \/ e.denied # {}
    THEN [st EXCEPT !.collection_errors = @ + 1]
    ELSE [st EXCEPT !.processes =
            Store(@, ProcessInfo(pid, e.ppid, e.name, e.status,
                                 e.memory_mb, e.num_threads))]

CollectOne(st, pid, e) ==
    IF e.open # "ok"
    THEN [st EXCEPT !.collection_errors = @ + 1]
    ELSE [st EXCEPT !.processes =
            Store(@, ProcessInfo(pid,
                                 ReadField(e, "ppid", e.ppid, 0),
                                 ReadField(e, "name", e.name, UnknownName),
                                 ReadField(e, "status", e.status, "unknown"),
                                 ReadField(e, "memory_mb", e.memory_mb, 0),
                                 ReadField(e, "num_threads", e.num_threads, 0)))]

RECURSIVE CollectLoop(_, _, _)
CollectLoop(st, pids, t) ==
    IF pids = <<>> THEN st
    ELSE CollectLoop(CollectOne(st, Head(pids), t[Head(pids)]), Tail(pids), t)

-----------------------------------------------------------------------------
(* build_tree *)

AppendChild(procs, parent, child) ==
    [procs EXCEPT ![IndexOf(procs, parent)].children = Append(@, child)]

\* first pass; st = [processes, root_processes], i = position in the dict
RECURSIVE LinkLoop(_, _)
LinkLoop(st, i) ==
    IF i > Len(st.processes) THEN st
    ELSE LET proc == st.processes[i] IN
         IF proc.ppid \in Keys(st.processes)
         THEN LinkLoop([st EXCEPT !.processes =
                            AppendChild(@, proc.ppid, proc.pid)], i + 1)
         ELSE LinkLoop([st EXCEPT !.root_processes = Append(@, proc.pid)],
                       i + 1)

BuildResult(procs, roots) ==
    LET linked == LinkLoop([processes |-> procs, root_processes |-> roots], 1)
    IN [processes |->
            [i \in 1..Len(linked.processes) |->
                [linked.processes[i] EXCEPT !.children = SortByPid(@)]],
        root_processes |-> SortByPid(linked.root_processes)]

-----------------------------------------------------------------------------
(* Printed lines *)

LastConnector == "\\-- "
MidConnector == "|-- "
BlankExtension == "    "
BarExtension == "|   "

Line(kind, pid, prefix, connector, name, num) ==
    [kind |-> kind, pid |-> pid, prefix |-> prefix, connector |-> connector,
     name |-> name, num |-> num]

Message(kind, num) == Line(kind, NoPid, <<>>, "", <<>>, num)

TreeLine(proc, prefix, is_last) ==
    Line("tree", proc.pid, prefix,
         IF is_last THEN LastConnector ELSE MidConnector, proc.name, <<>>)

TreeLines(out) == SelectSeq(out, LAMBDA l : l.kind = "tree")

HasLine(out, kind) == \E i \in 1..Len(out) : out[i].kind = kind

-----------------------------------------------------------------------------
(* display_tree *)

Frame(process, prefix, is_last) ==
    [process |-> process, prefix |-> prefix, is_last |-> is_last, i |-> 0]

\* rs = [stack, visited, out]: a call display_tree(process, prefix, is_last,
\* visited) up to the loop over the children
DisplayCallUnguarded(rs, procs, process, prefix, is_last) ==
    [stack |-> Append(rs.stack, Frame(process, prefix, is_last)),
     visited |-> rs.visited \cup {process},
     out |-> Append(rs.out, TreeLine(Proc(procs, process), prefix, is_last))]

DisplayCall(rs, procs, process, prefix, is_last) ==
    IF process \in rs.visited THEN rs
    ELSE [stack |-> Append(rs.stack, Frame(process, prefix, is_last)),
          visited |-> rs.visited \cup {process},
          out |-> Append(rs.out,
                         TreeLine(Proc(procs, process), prefix, is_last))]

\* the list a frame loops over: the roots for display_tree(None)
FrameList(f, procs, roots) ==
    IF f.process = NoPid THEN roots ELSE Proc(procs, f.process).children

\* is_last_root / is_last_child, i counted from 0
IsLastIndex(i, list) == i = Len(list) - 1

\* one iteration of the loop of the top frame, or its return
DisplayAdvance(rs, procs, roots) ==
    LET top == rs.stack[Len(rs.stack)]
        list == FrameList(top, procs, roots)
    IN IF top.i = Len(list)
       THEN [rs EXCEPT !.stack = SubSeq(@, 1, Len(@) - 1)]
       ELSE LET child == list[top.i + 1]
                is_last == IsLastIndex(top.i, list)
                prefix == IF top.process = NoPid THEN <<>>
                          ELSE Append(top.prefix,
                                      IF top.is_last THEN BlankExtension
                                      ELSE BarExtension)
            IN DisplayCall([rs EXCEPT !.stack[Len(rs.stack)].i = @ + 1],
                           procs, child, prefix, is_last)

-----------------------------------------------------------------------------
(* find_process and get_statistics *)

RECURSIVE NameMatches(_, _)
NameMatches(procs, query_lower) ==
    IF procs = <<>> THEN <<>>
    ELSE (IF Contains(Lower(Head(procs).name), query_lower)
          THEN <<Head(procs).pid>> ELSE <<>>)
         \o NameMatches(Tail(procs), query_lower)

find_process(procs, query) ==
    IF IsInt(query)
    THEN IF IntValue(query) \in Keys(procs) THEN <<IntValue(query)>> ELSE <<>>
    ELSE NameMatches(procs, Lower(query))

CountStatus(procs, status) ==
    Cardinality({i \in 1..Len(procs) : procs[i].status = status})

get_statistics(procs, roots) ==
    <<Len(procs), Len(roots),
      SumSeq([i \in 1..Len(procs) |-> procs[i].memory_mb]),
      SumSeq([i \in 1..Len(procs) |-> procs[i].num_threads]),
      CountStatus(procs, "running"), CountStatus(procs, "sleeping"),
      CountStatus(procs, "zombie")>>

-----------------------------------------------------------------------------
(* Initial states: the command line and the process table of a run *)

Args(pid, search, output, stats, monitor) ==
    [pid |-> pid, search |-> search, output |-> output, stats |-> stats,
     monitor |-> monitor]

Strings(chars, n) == UNION {[1..k -> chars] : k \in 1..n}

NameOf(p) == <<"P", Digits[(p % 10) + 1]>>

StatusOf(p) ==
    CASE p % 3 = 0 -> "running"
      [] p % 3 = 1 -> "sleeping"
      [] OTHER -> "zombie"

TreeEntry(p, parent) ==
    IF parent = NoPid THEN AbsentEntry
    ELSE Entry("ok", parent, NameOf(p), StatusOf(p), p + 1, 1, {})

\* every subset of the pids running, under every parent relation; a parent
\* is one of the pids or a pid that is never enumerated
TreeTables ==
    {[p \in Pids |-> TreeEntry(p, c[p])] :
     c \in [Pids -> Pids \cup {NoPid, MaxPid + 1}]}

TreeArgs ==
    {Args(0, <<>>, o, ~o, m) : o \in BOOLEAN, m \in BOOLEAN}
    \cup {Args(q, <<>>, TRUE, FALSE, FALSE) : q \in Pids \ {0}}
    \cup {Args(0, <<"p">>, TRUE, FALSE, FALSE)}

\* every subset of the pids running, every parent one of the pids
CycleTables ==
    {[p \in Pids |-> TreeEntry(p, c[p])] : c \in [Pids -> Pids \cup {NoPid}]}

LiveArgs ==
    {Args(q, <<>>, q = 0, FALSE, FALSE) : q \in Pids}
    \cup {Args(0, <<"1">>, FALSE, TRUE, TRUE)}

\* pid 1 and its child pid 2 under every name
SearchTables ==
    {[p \in Pids |->
        IF p = 1 /\ n1 # <<>> THEN Entry("ok", 0, n1, "running", 1, 1, {})
        ELSE IF p = 2 THEN Entry("ok", 1, n2, "sleeping", 1, 1, {})
        ELSE AbsentEntry] :
     n1 \in Strings({"A", "1"}, MaxLen) \cup {<<>>},
     n2 \in Strings({"A", "1"}, MaxLen)}

SearchArgs ==
    {Args(0, q, FALSE, FALSE, FALSE) : q \in Strings({"a", "A", "1"}, MaxLen)}
    \cup {Args(q, <<>>, TRUE, TRUE, m) : q \in {0, 1}, m \in BOOLEAN}

\* every pid absent, failing on open, or readable with some fields denied
FailSets == {{}, {"ppid"}, {"name", "status"}, FieldNames}

CollectTables ==
    {[p \in Pids |->
        IF c[p].open = "absent" THEN AbsentEntry
        ELSE Entry(c[p].open, (p + MaxPid) % (MaxPid + 1), NameOf(p),
                   StatusOf(p), p + 1, 1, c[p].denied)] :
     c \in [Pids -> ([open : {"absent", "NoSuchProcess", "Exception"},
                      denied : {{}}]
                     \cup [open : {"ok"}, denied : FailSets])]}

CollectArgs ==
    {Args(0, <<>>, o, TRUE, o) : o \in BOOLEAN}
    \cup {Args(1, <<>>, FALSE, FALSE, FALSE),
          Args(0, <<"p">>, FALSE, FALSE, FALSE)}

InitWith(tables, argsets) ==
    /\ table \in tables
    /\ args \in argsets
    /\ pc = "new"
    /\ processes = <<>>
    /\ root_processes = <<>>
    /\ total_processes = 0
    /\ collection_errors = 0
    /\ matches = <<>>
    /\ stack = <<>>
    /\ visited = {}
    /\ stdout = "terminal"
    /\ terminal = <<>>
    /\ file = <<>>
    /\ exit_status = NoStatus
    /\ prev_failed = FALSE

Init == InitWith(TreeTables, TreeArgs)

InitLive == InitWith(CycleTables, LiveArgs)

InitSearch == InitWith(SearchTables, SearchArgs)

InitCollect == InitWith(CollectTables, CollectArgs)

-----------------------------------------------------------------------------
(* main() *)

AfterStats == IF args.output THEN "export" ELSE "end"

AfterDisplay == IF args.stats THEN "stats" ELSE AfterStats

\* a print to whatever sys.stdout is bound to
Emit(lines) ==
    IF stdout = "terminal"
    THEN terminal' = terminal \o lines /\ file' = file
    ELSE file' = file \o lines /\ terminal' = terminal

ReusedTree ==
    [processes |-> processes, root_processes |-> root_processes,
     total_processes |-> total_processes,
     collection_errors |-> collection_errors]

\* ProcessTree.__init__
NewProcessTree ==
    [processes |-> <<>>, root_processes |-> <<>>, total_processes |-> 0,
     collection_errors |-> 0]

\* the screen clear of the monitoring loop, then tree = ProcessTree(...)
StartCycle ==
    /\ pc = "new"
    /\ terminal' = IF args.monitor THEN <<>> ELSE terminal
    /\ processes' = NewProcessTree.processes
    /\ root_processes' = NewProcessTree.root_processes
    /\ total_processes' = NewProcessTree.total_processes
    /\ collection_errors' = NewProcessTree.collection_errors
    /\ pc' = "collect"
    /\ UNCHANGED <<table, args, matches, stack, visited, stdout, file,
                   exit_status, prev_failed>>

\* collect_processes when psutil.pids() raises
CollectSourceFails ==
    /\ pc = "collect"
    /\ Emit(<<Message("collecting", <<>>), Message("enum_error", <<>>)>>)
    /\ pc' = "build"
    /\ UNCHANGED <<table, args, tree_vars, matches, stack, visited, stdout,
                   exit_status, prev_failed>>

\* collect_processes
CollectProcesses ==
    /\ pc = "collect"
    /\ \E pids \in Enumerations(table) :
        LET st == CollectLoop([processes |-> processes,
                               collection_errors |-> collection_errors],
                              pids, table)
        IN /\ total_processes' = Len(pids)
           /\ processes' = st.processes
           /\ collection_errors' = st.collection_errors
           /\ Emit(<<Message("collecting", <<>>),
                      Message("collected", <<Len(st.processes)>>)>>
                    \o IF st.collection_errors > 0
                       THEN <<Message("inaccessible",
                                      <<st.collection_errors>>)>>
                       ELSE <<>>)
    /\ pc' = "build"
    /\ UNCHANGED <<table, args, root_processes, matches, stack, visited,
                   stdout, exit_status, prev_failed>>

\* build_tree
BuildTree ==
    /\ pc = "build"
    /\ LET built == BuildResult(processes, root_processes)
       IN /\ processes' = built.processes
          /\ root_processes' = built.root_processes
    /\ pc' = "header"
    /\ UNCHANGED <<table, args, total_processes, collection_errors, matches,
                   stack, visited, stdout, terminal, file, exit_status,
                   prev_failed>>

\* display_header
DisplayHeader ==
    /\ pc = "header"
    /\ Emit(<<Message("header", <<Len(processes)>>)>>)
    /\ pc' = "mode"
    /\ UNCHANGED <<table, args, tree_vars, matches, stack, visited, stdout,
                   exit_status, prev_failed>>

\* if args.search: matches = tree.find_process(args.search) ...
Search ==
    /\ pc = "mode"
    /\ args.search # <<>>
    /\ matches' = find_process(processes, args.search)
    /\ Emit(IF matches' # <<>>
             THEN <<Message("found", <<Len(matches')>>)>>
             ELSE <<Message("no_match", <<>>)>>)
    /\ pc' = IF matches' # <<>> THEN "subtrees" ELSE AfterDisplay
    /\ UNCHANGED <<table, args, tree_vars, stack, visited, stdout,
                   exit_status, prev_failed>>

\* display_process_subtree(pid), up to the loop of display_tree(process)
SubtreeOf(pid) ==
    IF pid \notin Keys(processes)
    THEN /\ Emit(<<Message("not_found", <<pid>>)>>)
         /\ stack' = <<>>
         /\ visited' = {}
    ELSE LET rs == DisplayCall([stack |-> <<>>, visited |-> {},
                                out |-> <<Message("subtree", <<pid>>)>>],
                               processes, pid, <<>>, TRUE)
         IN /\ Emit(rs.out)
            /\ stack' = rs.stack
            /\ visited' = rs.visited

\* elif args.pid: tree.display_process_subtree(args.pid), and
\* for proc in matches: tree.display_process_subtree(proc.pid)
DisplayProcessSubtree ==
    /\ \/ /\ pc = "mode" /\ args.search = <<>> /\ args.pid # 0
          /\ SubtreeOf(args.pid)
          /\ matches' = matches
       \/ /\ pc = "subtrees"
          /\ SubtreeOf(Head(matches))
          /\ matches' = Tail(matches)
    /\ pc' = "render"
    /\ UNCHANGED <<table, args, tree_vars, stdout, exit_status, prev_failed>>

\* else: tree.display_tree()
DisplayForest ==
    /\ pc = "mode" /\ args.search = <<>> /\ args.pid = 0
    /\ stack' = <<Frame(NoPid, <<>>, TRUE)>>
    /\ visited' = {}
    /\ pc' = "render"
    /\ UNCHANGED <<table, args, tree_vars, matches, stdout, terminal, file,
                   exit_status, prev_failed>>

\* display_tree: the next iteration of the innermost loop, or its return
DisplayStep ==
    /\ pc \in {"render", "export_render"}
    /\ stack # <<>>
    /\ LET rs == DisplayAdvance([stack |-> stack, visited |-> visited,
                                 out |-> <<>>], processes, root_processes)
       IN /\ stack' = rs.stack
          /\ visited' = rs.visited
          /\ Emit(rs.out)
    /\ UNCHANGED <<table, args, pc, tree_vars, matches, stdout, exit_status,
                   prev_failed>>

\* the outermost display_tree call of the display mode returns
DisplayReturn ==
    /\ pc = "render"
    /\ stack = <<>>
    /\ pc' = IF matches # <<>> THEN "subtrees" ELSE AfterDisplay
    /\ UNCHANGED <<table, args, tree_vars, matches, stack, visited, stdout,
                   terminal, file, exit_status, prev_failed>>

\* display_statistics
DisplayStatistics ==
    /\ pc = "stats"
    /\ Emit(<<Message("stats", get_statistics(processes, root_processes))>>)
    /\ pc' = AfterStats
    /\ UNCHANGED <<table, args, tree_vars, matches, stack, visited, stdout,
                   exit_status, prev_failed>>

\* export_to_file up to the loop of display_tree()
ExportToFile ==
    /\ pc = "export"
    /\ stdout' = "file"
    /\ file' = <<Message("header", <<Len(processes)>>)>>
    /\ stack' = <<Frame(NoPid, <<>>, TRUE)>>
    /\ visited' = {}
    /\ pc' = "export_render"
    /\ UNCHANGED <<table, args, tree_vars, matches, terminal, exit_status,
                   prev_failed>>

\* export_to_file when open() raises
ExportOpenFails ==
    /\ pc = "export"
    /\ Emit(<<Message("export_error", <<>>)>>)
    /\ pc' = "end"
    /\ UNCHANGED <<table, args, tree_vars, matches, stack, visited, stdout,
                   exit_status, prev_failed>>

\* export_to_file after display_tree() returned
ExportFinish ==
    /\ pc = "export_render"
    /\ stack = <<>>
    /\ stdout' = "terminal"
    /\ terminal' = Append(terminal, Message("exported", <<>>))
    /\ pc' = "end"
    /\ UNCHANGED <<table, args, tree_vars, matches, stack, visited, file,
                   exit_status, prev_failed>>

\* time.sleep(args.interval), then the next iteration of while True
Sleep ==
    /\ pc = "end"
    /\ args.monitor
    /\ prev_failed' = HasLine(terminal, "enum_error")
    /\ pc' = "new"
    /\ UNCHANGED <<table, args, tree_vars, matches, stack, visited, stdout,
                   terminal, file, exit_status>>

\* a process of the table exits while the program sleeps
ProcessExits ==
    /\ pc = "end"
    /\ args.monitor
    /\ \E p \in Pids :
        /\ table[p].open # "absent"
        /\ table' = [table EXCEPT ![p] = AbsentEntry]
    /\ UNCHANGED <<args, pc, tree_vars, matches, stack, visited, stdout,
                   terminal, file, exit_status, prev_failed>>

\* the state left when the interpreter has exited
Exited(status) ==
    /\ pc' = "exited"
    /\ exit_status' = status
    /\ processes' = <<>>
    /\ root_processes' = <<>>
    /\ total_processes' = 0
    /\ collection_errors' = 0
    /\ matches' = <<>>
    /\ stack' = <<>>
    /\ visited' = {}
    /\ UNCHANGED <<table, args, stdout, file, prev_failed>>

\* main() returns in single-shot mode
Return ==
    /\ pc = "end"
    /\ ~args.monitor
    /\ terminal' = terminal
    /\ Exited(0)

\* except KeyboardInterrupt: notice, then sys.exit(0).  Inside export_to_file
\* the with statement has closed the file sys.stdout is still bound to, the
\* print raises ValueError and the interpreter exits with status 1.
KeyboardInterrupt ==
    /\ pc # "exited"
    /\ IF stdout = "terminal"
       THEN /\ terminal' = Append(terminal, Message("terminated", <<>>))
            /\ Exited(0)
       ELSE /\ terminal' = terminal
            /\ Exited(1)

Next ==
    \/ StartCycle
    \/ CollectSourceFails
    \/ CollectProcesses
    \/ BuildTree
    \/ DisplayHeader
    \/ Search
    \/ DisplayProcessSubtree
    \/ DisplayForest
    \/ DisplayStep
    \/ DisplayReturn
    \/ DisplayStatistics
    \/ ExportToFile
    \/ ExportOpenFails
    \/ ExportFinish
    \/ Sleep
    \/ ProcessExits
    \/ Return
    \/ KeyboardInterrupt

Spec == Init /\ [][Next]_vars

SpecSearch == InitSearch /\ [][Next]_vars

SpecCollect == InitCollect /\ [][Next]_vars

\* the interpreter keeps running the traversal it is in
SpecLive == InitLive /\ [][Next]_vars /\ WF_vars(DisplayStep)

TypeOK ==
    /\ pc \in {"new", "collect", "build", "header", "mode", "subtrees",
               "render", "stats", "export", "export_render", "end", "exited"}
    /\ stdout \in {"terminal", "file"}
    /\ exit_status \in {NoStatus, 0, 1}
    /\ Keys(processes) \subseteq Pids
    /\ visited \subseteq Pids

-----------------------------------------------------------------------------
(* Vocabulary of the properties *)

AfterCollect == {"build", "header", "mode", "subtrees", "render", "stats",
                 "export", "export_render", "end"}

AfterBuild == AfterCollect \ {"build"}

Rendering == pc \in {"render", "export_render"}

FullForestMode == args.search = <<>> /\ args.pid = 0

Sink == IF stdout = "terminal" THEN terminal ELSE file

Count(x, s) == Cardinality({i \in 1..Len(s) : s[i] = x})

NoDuplicates(s) == \A i, j \in 1..Len(s) : s[i] = s[j] => i = j

StrictlyAscending(s) == \A i \in 1..Len(s) - 1 : s[i] < s[i + 1]

PidsOf(lines) == [i \in 1..Len(lines) |-> lines[i].pid]

\* the pids met by walking from the nodes of list through the children
\* lists, parents before children, at most fuel levels deep
RECURSIVE Walk(_, _, _)
Walk(procs, list, fuel) ==
    IF list = <<>> \/ fuel = 0 THEN <<>>
    ELSE <<Head(list)>>
         \o Walk(procs, Proc(procs, Head(list)).children, fuel - 1)
         \o Walk(procs, Tail(list), fuel)

Forest == Walk(processes, root_processes, Len(processes) + 1)

\* the tree lines of the traversal in progress: the tree lines that end
\* the sink
RECURSIVE LastTraversal(_)
LastTraversal(out) ==
    IF out = <<>> \/ out[Len(out)].kind # "tree" THEN <<>>
    ELSE Append(LastTraversal(SubSeq(out, 1, Len(out) - 1)), out[Len(out)])

-----------------------------------------------------------------------------
(* C1 - Forest completeness: after build_tree every record of the pid      *)
(* index is reachable from root_processes through the children lists       *)
(* exactly once, parent-pid cycles included.                               *)

C2_RootClassification ==
    pc \in AfterBuild =>
        \A i \in 1..Len(processes) :
            LET r == processes[i] IN
            /\ r.pid \in Range(root_processes)
                 <=> (r.ppid \notin Keys(processes) \/ r.ppid = 0
                      \/ r.ppid = r.pid)
            /\ r.pid \notin Range(root_processes) =>
                 {q \in Keys(processes) :
                    r.pid \in Range(Proc(processes, q).children)} = {r.ppid}

(* C3 - Render cycle safety: a traversal by display_tree, of the full      *)
(* forest or of one subtree, ends; it emits at most one tree line per pid; *)
(* a pid met while in the visited set gets no line and no descent; and in  *)
(* a full-forest traversal one visited set serves all the roots.           *)

OneLinePerPid ==
    Rendering =>
        /\ NoDuplicates(PidsOf(LastTraversal(Sink)))
        /\ Range(PidsOf(LastTraversal(Sink))) = visited

\* the top frame's loop is about to call display_tree on a visited pid
MeetsVisited ==
    /\ Rendering
    /\ stack # <<>>
    /\ LET top == stack[Len(stack)]
           list == FrameList(top, processes, root_processes)
       IN top.i < Len(list) /\ list[top.i + 1] \in visited

VisitedPidSkipped ==
    MeetsVisited /\ pc' = pc =>
        /\ terminal' = terminal
        /\ file' = file
        /\ visited' = visited
        /\ Len(stack') = Len(stack)

VisitedSetShared ==
    Rendering /\ pc' = pc /\ stack # <<>> => visited \subseteq visited'

C3_RenderCycleSafety ==
    /\ []OneLinePerPid
    /\ [][VisitedPidSkipped]_vars
    /\ [][VisitedSetShared]_vars
    /\ (Rendering /\ stack # <<>>) ~> (stack = <<>>)

\* a subtree traversal has ended whose root is a child of a node it visited
C3_Witness ==
    /\ pc = "render"
    /\ stack = <<>>
    /\ args.search = <<>>
    /\ args.pid \in visited
    /\ Proc(processes, args.pid).ppid \in visited
    /\ Len(LastTraversal(terminal)) = Cardinality(visited)

-----------------------------------------------------------------------------
(* C4 - Search semantics of find_process.                                  *)

\* find_process has just returned and its result is in matches
Searched ==
    /\ pc \in AfterBuild
    /\ args.search # <<>>
    /\ terminal # <<>>
    /\ terminal[Len(terminal)].kind \in {"found", "no_match"}

SameLetter(a, b) ==
    \/ a = b
    \/ {a, b} \in {{"a", "A"}, {"b", "B"}, {"p", "P"}}

\* name contains query when the case of letters is ignored
ContainsIgnoringCase(name, query) ==
    \E k \in 0..Len(name) - Len(query) :
        \A i \in 1..Len(query) : SameLetter(name[k + i], query[i])

NameHits(query) ==
    {q \in Keys(processes) :
        ContainsIgnoringCase(Proc(processes, q).name, query)}

IsExistingPid(query) == IsInt(query) /\ IntValue(query) \in Keys(processes)

(* C4 as claimed: a numeric string equal to an existing pid returns just   *)
(* that record; every other query, digits-only ones included, returns all  *)
(* and only the records whose name contains it case-insensitively; a       *)
(* query matching nothing returns the empty list.                          *)
C4_SearchSemantics ==
    Searched =>
        /\ NoDuplicates(matches)
        /\ Range(matches) =
             IF IsExistingPid(args.search) THEN {IntValue(args.search)}
             ELSE NameHits(args.search)

(* C4 as amended: a query that int() accepts returns just the record with  *)
(* that pid, or the empty list when no process has that pid, whatever the  *)
(* names are; a query that int() rejects returns all and only the records  *)
(* whose name contains it case-insensitively, the empty list included.     *)
C4_SearchSemanticsAmended ==
    Searched =>
        /\ NoDuplicates(matches)
        /\ Range(matches) =
             IF IsInt(args.search)
             THEN {IntValue(args.search)} \cap Keys(processes)
             ELSE NameHits(args.search)

\* a digits-only query that is no pid but is part of a name returned nothing
C4_Witness ==
    /\ Searched
    /\ IsInt(args.search)
    /\ ~IsExistingPid(args.search)
    /\ NameHits(args.search) # {}
    /\ matches = <<>>

-----------------------------------------------------------------------------
(* C5 - Deterministic sibling ordering: after build_tree the root list and *)
(* every children list are in strictly ascending pid order; a full-forest  *)
(* rendering emits the nodes in pre-order along these lists, with the      *)
(* last-child connector on the final element of every sibling group, the   *)
(* root group included, and the other connector on every other element.    *)

ListsAscending ==
    pc \in AfterBuild =>
        /\ StrictlyAscending(root_processes)
        /\ \A i \in 1..Len(processes) :
              StrictlyAscending(processes[i].children)

\* the lists whose elements the rendering shows
SiblingGroups(lines) ==
    {g \in {root_processes}
           \cup {Proc(processes, lines[i].pid).children : i \in 1..Len(lines)} :
        g # <<>>}

FullForestRendered ==
    /\ FullForestMode
    /\ \/ pc = "render" /\ stdout = "terminal"
       \/ pc = "export_render" /\ stdout = "file"
    /\ stack = <<>>

ForestRendering ==
    FullForestRendered =>
        LET lines == LastTraversal(Sink) IN
        /\ PidsOf(lines) = Forest
        /\ \A g \in SiblingGroups(lines) :
              /\ {i \in 1..Len(lines) :
                    /\ lines[i].pid \in Range(g)
                    /\ lines[i].connector = LastConnector}
                 = {i \in 1..Len(lines) : lines[i].pid = g[Len(g)]}
              /\ \A i \in 1..Len(lines) :
                    lines[i].pid \in Range(g) /\ lines[i].pid # g[Len(g)]
                        => lines[i].connector = MidConnector
              /\ Cardinality({i \in 1..Len(lines) :
                                lines[i].pid = g[Len(g)]}) = 1

C5_SiblingOrdering == ListsAscending /\ ForestRendering

\* a forest of one root with two children, enumerated highest pid first,
\* has been rendered
C5_Witness ==
    /\ FullForestRendered
    /\ Len(processes) = 3
    /\ processes[1].pid > processes[2].pid
    /\ Len(root_processes) = 1
    /\ Len(Proc(processes, root_processes[1]).children) = 2
    /\ Len(LastTraversal(Sink)) = 3

-----------------------------------------------------------------------------
(* C6 - Statistics equivalence: the aggregates of get_statistics, taken    *)
(* over the flat pid index, equal the same aggregates taken by walking     *)
(* the forest from root_processes through the children lists.              *)

ForestStatistics ==
    LET nodes == [i \in 1..Len(Forest) |-> Proc(processes, Forest[i])] IN
    <<Len(nodes), Len(root_processes),
      SumSeq([i \in 1..Len(nodes) |-> nodes[i].memory_mb]),
      SumSeq([i \in 1..Len(nodes) |-> nodes[i].num_threads]),
      CountStatus(nodes, "running"), CountStatus(nodes, "sleeping"),
      CountStatus(nodes, "zombie")>>

C6_StatisticsEquivalence ==
    pc \in AfterBuild =>
        \A i \in 1..Len(terminal) :
            terminal[i].kind = "stats" => terminal[i].num = ForestStatistics

-----------------------------------------------------------------------------
(* C7 - Partial collection failure.                                        *)

\* collect_processes has returned after a successful enumeration; the
\* process table is still the one it read
Collected == pc = "build" /\ HasLine(terminal, "collected")

EnumeratedPids == {p \in Pids : table[p].open # "absent"}

NotFullyPopulated ==
    {p \in EnumeratedPids : table[p].open # "ok" \/ table[p].denied # {}}

FieldOrDefault(p, f, value, default) ==
    IF f \in table[p].denied THEN default ELSE value

\* the record of p holds the source's values, and the default of every
\* field whose read failed
RecordOf(p) ==
    [pid |-> p,
     ppid |-> FieldOrDefault(p, "ppid", table[p].ppid, 0),
     name |-> FieldOrDefault(p, "name", table[p].name, UnknownName),
     status |-> FieldOrDefault(p, "status", table[p].status, "unknown"),
     memory_mb |-> FieldOrDefault(p, "memory_mb", table[p].memory_mb, 0),
     num_threads |-> FieldOrDefault(p, "num_threads", table[p].num_threads, 0),
     children |-> <<>>]

(* C7 as claimed: after collection collection_errors is the number of      *)
(* enumerated pids whose record could not be fully populated, a failure    *)
(* on opening the process or on reading any one field counting alike.      *)
C7_PartialCollectionFailure ==
    Collected => collection_errors = Cardinality(NotFullyPopulated)

(* C7 as amended: no failure on one pid aborts the collection of the       *)
(* others; a failed field read leaves the field at its default in a        *)
(* record that is stored, and does not touch collection_errors; a failure  *)
(* on opening the process leaves the pid without a record and adds one to  *)
(* collection_errors, which after collection is the number of enumerated   *)
(* pids that have no record.                                               *)
C7_PartialCollectionFailureAmended ==
    Collected =>
        /\ total_processes = Cardinality(EnumeratedPids)
        /\ Keys(processes) = {p \in EnumeratedPids : table[p].open = "ok"}
        /\ NoDuplicates(PidsOf(processes))
        /\ \A p \in Keys(processes) : Proc(processes, p) = RecordOf(p)
        /\ collection_errors = Cardinality(EnumeratedPids \ Keys(processes))

\* a pid that failed on open, a pid with denied fields and a third pid
\* have been collected in one pass
C7_Witness ==
    /\ Collected
    /\ total_processes = 3
    /\ collection_errors = 1
    /\ \E p \in Keys(processes) : table[p].denied = FieldNames
    /\ \E p \in Keys(processes) : table[p].denied = {}

-----------------------------------------------------------------------------
(* C8 - Monitoring survives a source failure: a cycle whose enumeration    *)
(* fails reports it and shows no process; the monitoring loop ends on      *)
(* KeyboardInterrupt only; every cycle collects into a new ProcessTree,    *)
(* so a cycle whose enumeration succeeds holds and renders the processes   *)
(* of its own enumeration and nothing of an earlier cycle.                 *)

EnumerationFailed == pc \in AfterCollect /\ HasLine(terminal, "enum_error")

FailureReported ==
    EnumerationFailed =>
        /\ ~HasLine(terminal, "collected")
        /\ processes = <<>>
        /\ root_processes = <<>>
        /\ TreeLines(terminal) = <<>>

LoopEndsOnInterruptOnly ==
    args.monitor /\ pc # "exited" /\ pc' = "exited" => KeyboardInterrupt

NewTreePerCycle ==
    pc = "collect" =>
        /\ processes = <<>>
        /\ root_processes = <<>>
        /\ total_processes = 0
        /\ collection_errors = 0

OwnSnapshot ==
    pc \in AfterCollect /\ ~HasLine(terminal, "enum_error") =>
        /\ pc # "end" => Keys(processes) = {p \in Pids : table[p].open = "ok"}
        /\ NoDuplicates(PidsOf(processes))
        /\ NoDuplicates(root_processes)
        /\ \A i \in 1..Len(processes) : NoDuplicates(processes[i].children)
        /\ Range(PidsOf(TreeLines(terminal))) \subseteq Keys(processes)

C8_MonitoringSurvivesSourceFailure ==
    /\ []FailureReported
    /\ [][LoopEndsOnInterruptOnly]_vars
    /\ []NewTreePerCycle
    /\ []OwnSnapshot

\* the cycle after a failed enumeration has rendered its own forest
C8_Witness ==
    /\ args.monitor
    /\ prev_failed
    /\ pc = "render"
    /\ stack = <<>>
    /\ TreeLines(terminal) # <<>>
    /\ Range(PidsOf(TreeLines(terminal))) \subseteq Keys(processes)

-----------------------------------------------------------------------------
(* C9 - Cancellation: in monitoring mode a KeyboardInterrupt during the    *)
(* sleep or during a rendering, on the terminal or inside export_to_file,  *)
(* ends the program with the termination notice on the terminal and exit   *)
(* status 0.                                                               *)

C9_Cancellation ==
    args.monitor /\ pc = "exited" =>
        /\ exit_status = 0
        /\ terminal # <<>>
        /\ terminal[Len(terminal)].kind = "terminated"

-----------------------------------------------------------------------------
(* C10 - Sink independence: the tree lines export_to_file wrote are the    *)
(* tree lines the same invocation rendered on the terminal, in full        *)
(* forest, subtree and search mode alike.                                  *)

C10_SinkIndependence ==
    pc = "end" /\ HasLine(terminal, "exported") =>
        TreeLines(file) = TreeLines(terminal)

====
